---------------------------- MODULE Spec2Model ----------------------------
(***************************************************************************)
(* Foodgram backend (fyurikon/foodgram-project-react): the recipe write    *)
(* service, the engagement toggles (Favorite / ShoppingCart / Follow) and  *)
(* the shopping list export, as the Django REST views and serializers of   *)
(* backend/api implement them over the tables of backend/recipes and       *)
(* backend/users.                                                          *)
(*                                                                         *)
(* The database runs in Django's default autocommit mode: no view or       *)
(* serializer opens a transaction, so every ORM statement is committed on  *)
(* its own.  Spec, EngageSpec, StoreSpec and ReadSpec run one request at a *)
(* time (each handler is one action); RaceWriteSpec and RaceToggleSpec     *)
(* interleave the statements of two requests.                              *)
(***************************************************************************)
EXTENDS Integers, Sequences, FiniteSets, Bags, TLC

(***************************************************************************)
(* Bounds of the model                                                     *)
(***************************************************************************)
MaxRecipes == 2          \* recipe ids of the model
WriteRecipes == 1        \* recipes created under Spec, which draws every payload
MaxAmount == 2
MaxTime == 2

(***************************************************************************)
(* Program constants (recipes/models.py)                                   *)
(***************************************************************************)
MIN_TIME == 1
MIN_PSIF == 0
MAX_PSIF == 32767

(***************************************************************************)
(* Rows of the catalog and of the user table.  The API has no handler that *)
(* writes Tag, Ingredient or User.is_staff (they come from the admin site  *)
(* and the CSV import), so they are fixed here.                            *)
(***************************************************************************)
Users == {"u1", "u2"}
Staff == {"u2"}
Anonymous == "anonymous"
Requesters == Users \cup {Anonymous}
TagIds == {1, 2}
IngredientIds == {1, 2}
UnknownIngredient == 9
RecipeIds == 1..MaxRecipes

\* Ingredient.name and Ingredient.measurement_unit, unique together
\* (recipes/models.py:77): distinct ingredients have distinct pairs.
IngredientName(i) == <<"name", i>>
IngredientUnit(i) == <<"unit", i>>

\* An optional value: a field the request leaves out is None.
None == <<>>
Some(v) == <<v>>

(***************************************************************************)
(* Request payloads of POST/PATCH/PUT /recipes.  cooking_time stands for   *)
(* the scalar fields (name, text, image, cooking_time): each is validated  *)
(* on its own and written by the same save().                              *)
(***************************************************************************)
SeqsUpTo(S, n) == UNION {[1..k -> S] : k \in 0..n}
\* The lines a client sends: every line over the catalog with an amount the
\* serializer accepts, one line of amount zero and one line that names an
\* ingredient the catalog does not hold.
LineVals ==
    [id : IngredientIds, amount : 1..MaxAmount]
    \cup {[id |-> 1, amount |-> 0], [id |-> UnknownIngredient, amount |-> 1]}
TagPayloads == {None} \cup {Some(s) : s \in SeqsUpTo(TagIds, 2)}
IngredientPayloads == {None} \cup {Some(s) : s \in SeqsUpTo(LineVals, 2)}
TimePayloads == {None} \cup {Some(t) : t \in 0..MaxTime}
Payloads == [cooking_time : TimePayloads, tags : TagPayloads, ingredients : IngredientPayloads]
NoPayload == [cooking_time |-> None, tags |-> None, ingredients |-> None]

VARIABLES
    recipes,        \* Recipe rows by id, each with its tags (M2M rows) and its
                    \* IngredientInRecipe rows (a bag of [ingredient, amount])
    next_id,        \* the Recipe table's id sequence
    Favorite,       \* Favorite rows: number of rows per <<user, recipe>>
    ShoppingCart,  \* ShoppingCart rows: number of rows per <<user, recipe>>
    Follow,         \* Follow rows: number of rows per <<user, following>>
    inflight,       \* the race specifications: each worker's request and its position in the handler
    last            \* Spec: the last request and its response

vars == <<recipes, next_id, Favorite, ShoppingCart, Follow, inflight, last>>
db == <<recipes, next_id, Favorite, ShoppingCart, Follow>>

Range(s) == {s[i] : i \in DOMAIN s}

\* validate_tags with the empty-list test left out
validate_tags_without_empty_test(value) ==
    IF \E i, j \in DOMAIN value : i < j /\ value[i] = value[j]
    THEN {"not_unique"} ELSE {}

(***************************************************************************)
(* RecipeCreateSerializer.validate_tags                                    *)
(***************************************************************************)
validate_tags(value) ==
    (IF value = <<>> THEN {"no_tags"} ELSE {})
    \cup (IF \E i, j \in DOMAIN value : i < j /\ value[i] = value[j]
          THEN {"not_unique"} ELSE {})

\* validate_ingredients with the duplicate test left out
validate_ingredients_without_duplicate_test(value) ==
    (IF value = <<>> THEN {"no_ingredients"} ELSE {})
    \cup (IF \E i \in DOMAIN value : value[i].id \notin IngredientIds
          THEN {"non_existent_ingredients"} ELSE {})
    \cup (IF \E i \in DOMAIN value :
                value[i].id \in IngredientIds /\ value[i].amount <= 0
          THEN {"amount"} ELSE {})

\* validate_ingredients with the empty-list test left out
validate_ingredients_without_empty_test(value) ==
    (IF \E i \in DOMAIN value : value[i].id \notin IngredientIds
     THEN {"non_existent_ingredients"} ELSE {})
    \cup (IF \E i, j \in DOMAIN value :
                /\ j < i
                /\ value[i].id \in IngredientIds
                /\ value[j].id = value[i].id
          THEN {"duplicate_found"} ELSE {})
    \cup (IF \E i \in DOMAIN value :
                value[i].id \in IngredientIds /\ value[i].amount <= 0
          THEN {"amount"} ELSE {})

(***************************************************************************)
(* RecipeCreateSerializer.validate_ingredients                             *)
(***************************************************************************)
validate_ingredients(value) ==
    (IF value = <<>> THEN {"no_ingredients"} ELSE {})
    \cup (IF \E i \in DOMAIN value : value[i].id \notin IngredientIds
          THEN {"non_existent_ingredients"} ELSE {})
    \cup (IF \E i, j \in DOMAIN value :
                /\ j < i
                /\ value[i].id \in IngredientIds
                /\ value[j].id = value[i].id
          THEN {"duplicate_found"} ELSE {})
    \cup (IF \E i \in DOMAIN value :
                value[i].id \in IngredientIds /\ value[i].amount <= 0
          THEN {"amount"} ELSE {})


(***************************************************************************)
(* RecipeCreateSerializer.is_valid: every field is validated on its own    *)
(* and the errors are collected.  A field the request leaves out is an     *)
(* error unless the request is partial (PATCH), and then its validate_     *)
(* method does not run.  The amount and cooking_time bounds are the        *)
(* validators of the model fields.                                         *)
(***************************************************************************)
is_valid(p, partial) ==
    (IF p.cooking_time = None
     THEN (IF partial THEN {} ELSE {"cooking_time_required"})
     ELSE IF p.cooking_time[1] < MIN_TIME \/ p.cooking_time[1] > MAX_PSIF
          THEN {"cooking_time"} ELSE {})
    \cup (IF p.tags = None
          THEN (IF partial THEN {} ELSE {"tags_required"})
          ELSE IF \E t \in Range(p.tags[1]) : t \notin TagIds
               THEN {"does_not_exist"}
               ELSE validate_tags(p.tags[1]))
    \cup (IF p.ingredients = None
          THEN (IF partial THEN {} ELSE {"ingredients_required"})
          ELSE IF \E x \in Range(p.ingredients[1]) :
                      x.amount < MIN_PSIF \/ x.amount > MAX_PSIF
               THEN {"amount_range"}
               ELSE validate_ingredients(p.ingredients[1]))

(***************************************************************************)
(* The statements of the write service, each committed on its own.         *)
(***************************************************************************)
\* The rows of fill_amount with every amount left at 1
LineRows_with_amount_one(ingredients) ==
    LET rows == {[ingredient |-> ingredients[i].id, amount |-> 1] : i \in DOMAIN ingredients}
    IN  [r \in rows |-> Cardinality({i \in DOMAIN ingredients : ingredients[i].id = r.ingredient})]

\* The rows a list of payload lines becomes (fill_amount's list of
\* IngredientInRecipe objects).
LineRows(ingredients) ==
    LET rows == {[ingredient |-> ingredients[i].id, amount |-> ingredients[i].amount] :
                    i \in DOMAIN ingredients}
    IN  [r \in rows |->
            Cardinality({i \in DOMAIN ingredients :
                /\ ingredients[i].id = r.ingredient
                /\ ingredients[i].amount = r.amount})]

\* Number of IngredientInRecipe rows of one recipe for one ingredient.
RowsFor(lines, ing) ==
    BagCardinality([r \in {x \in DOMAIN lines : x.ingredient = ing} |-> lines[r]])

\* IngredientInRecipe.Meta.unique_together = ('recipe', 'ingredient')
unique_together_lines(lines) == \A ing \in IngredientIds : RowsFor(lines, ing) <= 1

\* Recipe.objects.create(**validated_data)
objects_create(recs, id, author, cooking_time) ==
    [r \in DOMAIN recs \cup {id} |->
        IF r = id
        THEN [author |-> author, cooking_time |-> cooking_time,
              tags |-> {}, lines |-> EmptyBag]
        ELSE recs[r]]

\* recipe.tags.set(tags)
tags_set(recs, id, tags) == [recs EXCEPT ![id].tags = Range(tags)]

\* an update that leaves the old lines where they are
ingredients_clear_nothing(recs, id) == recs

\* instance.ingredients.clear()
ingredients_clear(recs, id) == [recs EXCEPT ![id].lines = EmptyBag]

\* fill_amount: one bulk INSERT of a row per payload line.  The statement
\* fails as a whole (IntegrityError) when the recipe row is gone or when the
\* rows would break the unique constraint.
fill_amount(recs, id, ingredients) ==
    IF id \notin DOMAIN recs
    THEN [ok |-> FALSE, recs |-> recs]
    ELSE LET lines == recs[id].lines (+) LineRows(ingredients)
         IN  IF unique_together_lines(lines)
             THEN [ok |-> TRUE, recs |-> [recs EXCEPT ![id].lines = lines]]
             ELSE [ok |-> FALSE, recs |-> recs]

\* ModelSerializer.update: set the scalar fields the request gives; save().
super_update(recs, id, p) ==
    IF p.cooking_time = None THEN recs
    ELSE [recs EXCEPT ![id].cooking_time = p.cooking_time[1]]

(***************************************************************************)
(* The read projection (RecipeGetSerializer).                              *)
(***************************************************************************)
\* The reverse accessors the models give a User instance: Recipe.author has
\* related_name 'recipes', Follow.user 'follower', Follow.following
\* 'following'; BaseItem.user declares no related_name, so Favorite and
\* ShoppingCart are reached as favorite_set and shoppingcart_set.
UserAccessors == {"recipes", "follower", "following", "favorite_set", "shoppingcart_set"}

\* The names a lookup can follow from a Recipe: its fields and the reverse
\* query names of the foreign keys that point at it.
RecipeLookups == {"author", "tags", "ingredients", "ingredient_list", "favorite", "shoppingcart"}

get_ingredients(row) ==
    LET entry(r) == [id |-> r.ingredient, name |-> IngredientName(r.ingredient),
                     measurement_unit |-> IngredientUnit(r.ingredient),
                     amount |-> r.amount]
    IN  [e \in {entry(r) : r \in DOMAIN row.lines} |->
            BagCardinality([r \in {x \in DOMAIN row.lines : entry(x) = e} |-> row.lines[r]])]

\* user.favorites.filter(recipe=obj).exists(), for a viewer who is logged in
get_is_favorited(viewer, id) ==
    IF viewer = Anonymous THEN [error |-> "", value |-> FALSE]
    ELSE IF "favorites" \notin UserAccessors
         THEN [error |-> "AttributeError", value |-> FALSE]
         ELSE [error |-> "", value |-> Favorite[<<viewer, id>>] > 0]

\* user.shopping_cart.filter(recipe=obj).exists(), for a viewer who is logged in
get_is_in_shopping_cart(viewer, id) ==
    IF viewer = Anonymous THEN [error |-> "", value |-> FALSE]
    ELSE IF "shopping_cart" \notin UserAccessors
         THEN [error |-> "AttributeError", value |-> FALSE]
         ELSE [error |-> "", value |-> ShoppingCart[<<viewer, id>>] > 0]

to_representation(viewer, recs, id) ==
    LET fav == get_is_favorited(viewer, id)
        cart == get_is_in_shopping_cart(viewer, id)
    IN  [error |-> IF fav.error # "" THEN fav.error ELSE cart.error,
         id |-> id,
         tags |-> recs[id].tags,
         author |-> recs[id].author,
         ingredients |-> get_ingredients(recs[id]),
         is_favorited |-> fav.value,
         is_in_shopping_cart |-> cart.value,
         cooking_time |-> recs[id].cooking_time]

(***************************************************************************)
(* IsAdminOrAuthorOrReadOnly                                               *)
(***************************************************************************)
SAFE_METHODS == {"GET", "HEAD", "OPTIONS"}

has_permission(method, user) ==
    method \in SAFE_METHODS \/ user \in Staff \/ user # Anonymous

\* an object permission that lets every requester through
has_object_permission_for_all(user, row) == TRUE

has_object_permission(user, row) == row.author = user \/ user \in Staff

(***************************************************************************)
(* Responses                                                               *)
(***************************************************************************)
Response(op, status, errors) ==
    [op |-> op, status |-> status, errors |-> errors, body |-> None]

\* A response that carries a body
WithBody(resp, body) == [resp EXCEPT !.body = Some(body)]

\* The query parameters of GET /recipes, none given
NoQuery == [author |-> None, tags |-> {}, is_in_shopping_cart |-> "", is_favorited |-> ""]

\* A request (who asks, the recipe or the user it names, its payload or its
\* query parameters) and its response, and no request
Exchange(user, id, p, resp) ==
    [op |-> resp.op, method |-> "", user |-> user, id |-> id,
     following |-> Anonymous, payload |-> p, query |-> NoQuery,
     status |-> resp.status, errors |-> resp.errors, body |-> resp.body]

NoRequest == Exchange(Anonymous, 0, NoPayload, Response("none", 0, {}))

\* The status a handler ends with once its writes are done and it renders
\* the recipe for the requester.
Rendered(viewer, recs, id, status) ==
    IF to_representation(viewer, recs, id).error # "" THEN 500 ELSE status

RenderErrors(viewer, recs, id) ==
    IF to_representation(viewer, recs, id).error # ""
    THEN {to_representation(viewer, recs, id).error} ELSE {}

(***************************************************************************)
(* A handler's outcome: the tables as it leaves them, and its response.    *)
(***************************************************************************)
Outcome(recs, nid, fav, cart, fol, resp) ==
    [recipes |-> recs, next_id |-> nid, Favorite |-> fav,
     ShoppingCart |-> cart, Follow |-> fol, resp |-> resp]

\* The handler answers without writing.
Refuse(resp) == Outcome(recipes, next_id, Favorite, ShoppingCart, Follow, resp)

\* The handler wrote the Recipe table only.
Wrote(recs, nid, resp) == Outcome(recs, nid, Favorite, ShoppingCart, Follow, resp)

(***************************************************************************)
(* POST /recipes: RecipeViewSet.create and RecipeCreateSerializer.create   *)
(***************************************************************************)
create(user, p) ==
    IF user = Anonymous
    THEN Refuse(Response("create", 401, {"not_authenticated"}))
    ELSE IF is_valid(p, FALSE) # {}
    THEN Refuse(Response("create", 400, is_valid(p, FALSE)))
    ELSE LET id == next_id
             r1 == objects_create(recipes, id, user, p.cooking_time[1])
             r2 == tags_set(r1, id, p.tags[1])
             r3 == fill_amount(r2, id, p.ingredients[1])
         IN  IF r3.ok
             THEN Wrote(r3.recs, id + 1,
                        Response("create", Rendered(user, r3.recs, id, 201),
                                 RenderErrors(user, r3.recs, id)))
             ELSE Wrote(r2, id + 1, Response("create", 500, {"IntegrityError"}))

(***************************************************************************)
(* PUT, PATCH /recipes/{id}: UpdateModelMixin.update and                   *)
(* RecipeCreateSerializer.update                                           *)
(***************************************************************************)
update(user, id, p, partial) ==
    IF ~has_permission("PATCH", user)
    THEN Refuse(Response("update", 401, {"not_authenticated"}))
    ELSE IF id \notin DOMAIN recipes
    THEN Refuse(Response("update", 404, {"not_found"}))
    ELSE IF ~has_object_permission(user, recipes[id])
    THEN Refuse(Response("update", 403, {"permission_denied"}))
    ELSE IF is_valid(p, partial) # {}
    THEN Refuse(Response("update", 400, is_valid(p, partial)))
    ELSE LET r1 == super_update(recipes, id, p)
         IN  IF p.ingredients = None \/ p.ingredients[1] = <<>>
             THEN Wrote(r1, next_id,
                        Response("update", 400, {"ingredients_required_for_update"}))
             ELSE IF p.tags = None \/ p.tags[1] = <<>>
             THEN Wrote(r1, next_id,
                        Response("update", 400, {"tags_required_for_update"}))
             ELSE LET r2 == ingredients_clear(r1, id)
                      r3 == fill_amount(r2, id, p.ingredients[1])
                      r4 == tags_set(r3.recs, id, p.tags[1])
                  IN  IF r3.ok
                      THEN Wrote(r4, next_id,
                                 Response("update", Rendered(user, r4, id, 200),
                                          RenderErrors(user, r4, id)))
                      ELSE Wrote(r2, next_id, Response("update", 500, {"IntegrityError"}))

(***************************************************************************)
(* DELETE /recipes/{id}: DestroyModelMixin.destroy.  The rows that point   *)
(* at the recipe go with it (on_delete=CASCADE).                           *)
(***************************************************************************)
\* a delete that leaves the rows that point at the recipe
cascade_nothing(table, id) == table

cascade(table, id) == [k \in DOMAIN table |-> IF k[2] = id THEN 0 ELSE table[k]]

destroy(user, id) ==
    IF ~has_permission("DELETE", user)
    THEN Refuse(Response("destroy", 401, {"not_authenticated"}))
    ELSE IF id \notin DOMAIN recipes
    THEN Refuse(Response("destroy", 404, {"not_found"}))
    ELSE IF ~has_object_permission(user, recipes[id])
    THEN Refuse(Response("destroy", 403, {"permission_denied"}))
    ELSE Outcome([r \in DOMAIN recipes \ {id} |-> recipes[r]], next_id,
                 cascade(Favorite, id), cascade(ShoppingCart, id), Follow,
                 Response("destroy", 204, {}))

(***************************************************************************)
(* GET /recipes/{id}: RetrieveModelMixin.retrieve                          *)
(***************************************************************************)
retrieve(user, id) ==
    IF id \notin DOMAIN recipes
    THEN Refuse(Response("retrieve", 404, {"not_found"}))
    ELSE IF ~has_object_permission(user, recipes[id])
    THEN Refuse(Response("retrieve", IF user = Anonymous THEN 401 ELSE 403,
                         {"permission_denied"}))
    ELSE Refuse(Response("retrieve", Rendered(user, recipes, id, 200),
                         RenderErrors(user, recipes, id)))

(***************************************************************************)
(* Favorite and ShoppingCart rows (BaseItem), Follow rows                  *)
(***************************************************************************)
\* get_object_or_404 finds the row
get_object_or_400(table, pk) == pk \in DOMAIN table

\* an existence test that never finds the row
exists_never(table, key) == FALSE

\* filter(user=..., recipe=...).exists()
exists(table, key) == table[key] > 0

\* unique_together = ('user', 'recipe'), without it
without_unique_together(table, key) == TRUE

\* unique_together = ('user', 'recipe'): the insert the table accepts
unique_together(table, key) == table[key] = 0

\* UniqueConstraint(name='unique_follow', fields=['user', 'following'])
unique_follow(table, key) == table[key] = 0

\* Favorite.objects.create / ShoppingCart.objects.create: one INSERT, which
\* the table refuses (IntegrityError) for a second row of the pair and for
\* a recipe that is no longer there.
objects_create_item(table, recs, key) ==
    IF key[2] \in DOMAIN recs /\ unique_together(table, key)
    THEN [ok |-> TRUE, table |-> [table EXCEPT ![key] = @ + 1]]
    ELSE [ok |-> FALSE, table |-> table]

\* Follow.objects.create
objects_create_follow(table, key) ==
    IF unique_follow(table, key)
    THEN [ok |-> TRUE, table |-> [table EXCEPT ![key] = @ + 1]]
    ELSE [ok |-> FALSE, table |-> table]

\* QuerySet.delete(): every row the filter matches
delete(table, key) == [table EXCEPT ![key] = 0]

\* The body of RecipeViewSet.favorite and RecipeViewSet.shopping_cart, which
\* differ in the table only.
toggle(op, table, method, user, pk) ==
    IF user = Anonymous
    THEN [table |-> table, resp |-> Response(op, 401, {"not_authenticated"})]
    ELSE IF ~get_object_or_400(recipes, pk)
    THEN [table |-> table, resp |-> Response(op, 400, {"not_exist"})]
    ELSE IF method = "POST"
    THEN IF exists(table, <<user, pk>>)
         THEN [table |-> table, resp |-> Response(op, 400, {"errors"})]
         ELSE LET c == objects_create_item(table, recipes, <<user, pk>>)
              IN  IF c.ok
                  THEN [table |-> c.table, resp |-> Response(op, 201, {})]
                  ELSE [table |-> table, resp |-> Response(op, 500, {"IntegrityError"})]
    ELSE IF exists(table, <<user, pk>>)
         THEN [table |-> delete(table, <<user, pk>>), resp |-> Response(op, 204, {})]
         ELSE [table |-> table, resp |-> Response(op, 400, {"errors"})]

\* POST, DELETE /recipes/{pk}/favorite
favorite(method, user, pk) ==
    LET t == toggle("favorite", Favorite, method, user, pk)
    IN  Outcome(recipes, next_id, t.table, ShoppingCart, Follow, t.resp)

\* POST, DELETE /recipes/{pk}/shopping_cart
shopping_cart(method, user, pk) ==
    LET t == toggle("shopping_cart", ShoppingCart, method, user, pk)
    IN  Outcome(recipes, next_id, Favorite, t.table, Follow, t.resp)

(***************************************************************************)
(* GET /recipes/download_shopping_cart                                     *)
(***************************************************************************)
RECURSIVE SumOver(_, _)
SumOver(f, S) ==
    IF S = {} THEN 0
    ELSE LET x == CHOOSE y \in S : TRUE IN f[x] + SumOver(f, S \ {x})

\* IngredientInRecipe.objects.filter(recipe__shopping_cart__user=user)
\*     .values_list('ingredient__name', 'ingredient__measurement_unit')
\*     .annotate(amount=Sum('amount'))
\* The join has one row per line row and cart row of the line's recipe; the
\* rows are grouped by (name, unit).
annotate_sum(user) ==
    LET joined == UNION {{<<id, r>> : r \in DOMAIN recipes[id].lines} :
                            id \in {i \in DOMAIN recipes : ShoppingCart[<<user, i>>] > 0}}
        key(j) == <<IngredientName(j[2].ingredient), IngredientUnit(j[2].ingredient)>>
        amount == [j \in joined |->
                      ShoppingCart[<<user, j[1]>>] * recipes[j[1]].lines[j[2]] * j[2].amount]
    IN  [k \in {key(j) : j \in joined} |->
            SumOver(amount, {j \in joined : key(j) = k})]

download_shopping_cart(user) ==
    IF user = Anonymous
    THEN Refuse(Response("download_shopping_cart", 401, {"not_authenticated"}))
    ELSE IF "shopping_cart" \notin UserAccessors
    THEN Refuse(Response("download_shopping_cart", 500, {"AttributeError"}))
    ELSE IF \A id \in RecipeIds : ShoppingCart[<<user, id>>] = 0
    THEN Refuse(Response("download_shopping_cart", 400, {}))
    ELSE IF "shopping_cart" \notin RecipeLookups
    THEN Refuse(Response("download_shopping_cart", 500, {"FieldError"}))
    ELSE Refuse(WithBody(Response("download_shopping_cart", 200, {}),
                         annotate_sum(user)))

(***************************************************************************)
(* POST, DELETE /users/{id}/subscribe                                      *)
(***************************************************************************)
\* FollowSerializer.validate with the self-subscription test left out
validate_without_self_test(user, following) ==
    IF exists(Follow, <<user, following>>) THEN {"re_sub"} ELSE {}

\* FollowSerializer.validate
validate(user, following) ==
    (IF exists(Follow, <<user, following>>) THEN {"re_sub"} ELSE {}) \cup
    (IF user = following THEN {"self_sub"} ELSE {})

subscribe(method, user, following) ==
    LET answer(table, resp) ==
            Outcome(recipes, next_id, Favorite, ShoppingCart, table, resp)
    IN  IF user = Anonymous
        THEN Refuse(Response("subscribe", 401, {"not_authenticated"}))
        ELSE IF following \notin Users
        THEN Refuse(Response("subscribe", 404, {"not_found"}))
        ELSE IF method = "POST"
        THEN IF validate(user, following) # {}
             THEN Refuse(Response("subscribe", 400, validate(user, following)))
             ELSE LET c == objects_create_follow(Follow, <<user, following>>)
                  IN  IF c.ok
                      THEN answer(c.table, Response("subscribe", 201, {}))
                      ELSE Refuse(Response("subscribe", 500, {"IntegrityError"}))
        ELSE IF ~exists(Follow, <<user, following>>)
             THEN Refuse(Response("subscribe", 400, {"not_exist"}))
             ELSE answer(delete(Follow, <<user, following>>),
                         Response("subscribe", 204, {}))

(***************************************************************************)
(* One request at a time: a request arrives when the last response has     *)
(* been delivered, and its handler runs to the end.                        *)
(***************************************************************************)
Workers == {1, 2}
Idle ==
    [pc |-> "idle", op |-> "none", method |-> "", user |-> Anonymous, id |-> 0,
     following |-> Anonymous, payload |-> NoPayload, seen |-> FALSE]

Init ==
    /\ recipes = <<>>
    /\ next_id = 1
    /\ Favorite = [k \in Users \X RecipeIds |-> 0]
    /\ ShoppingCart = [k \in Users \X RecipeIds |-> 0]
    /\ Follow = [k \in Users \X Users |-> 0]
    /\ inflight = [w \in Workers |-> Idle]
    /\ last = NoRequest

\* The handler's outcome becomes the state; the response is being delivered.
Apply(o, x) ==
    /\ recipes' = o.recipes
    /\ next_id' = o.next_id
    /\ Favorite' = o.Favorite
    /\ ShoppingCart' = o.ShoppingCart
    /\ Follow' = o.Follow
    /\ last' = x
    /\ UNCHANGED inflight

Handle(user, id, p, o) == Apply(o, Exchange(user, id, p, o.resp))

HandleMethod(method, user, id, o) ==
    Apply(o, [Exchange(user, id, NoPayload, o.resp) EXCEPT !.method = method])

HandleSubscribe(method, user, following, o) ==
    Apply(o, [Exchange(user, 0, NoPayload, o.resp)
                EXCEPT !.method = method, !.following = following])

Deliver ==
    /\ last # NoRequest
    /\ last' = NoRequest
    /\ UNCHANGED <<db, inflight>>

CreateRecipe(payloads, cap) ==
    /\ last = NoRequest
    /\ next_id <= cap
    /\ \E user \in Requesters, p \in payloads :
            Handle(user, 0, p, create(user, p))

UpdateRecipe(payloads, cap) ==
    /\ last = NoRequest
    /\ \E user \in Requesters, id \in 1..cap, p \in payloads :
            Handle(user, id, p, update(user, id, p, TRUE))

DestroyRecipe(cap) ==
    /\ last = NoRequest
    /\ \E user \in Requesters, id \in 1..cap :
            Handle(user, id, NoPayload, destroy(user, id))

RetrieveRecipe(cap) ==
    /\ last = NoRequest
    /\ \E user \in Requesters, id \in 1..cap :
            Handle(user, id, NoPayload, retrieve(user, id))

Next ==
    \/ CreateRecipe(Payloads, WriteRecipes)
    \/ UpdateRecipe(Payloads, WriteRecipes)
    \/ DestroyRecipe(WriteRecipes)
    \/ RetrieveRecipe(WriteRecipes)
    \/ Deliver

Spec == Init /\ [][Next]_vars

(***************************************************************************)
(* The engagement requests, one at a time, over recipes that a few fixed   *)
(* payloads create.                                                        *)
(***************************************************************************)
Line(i, a) == [id |-> i, amount |-> a]

RecipePayload(t, tags, ingredients) ==
    [cooking_time |-> Some(t), tags |-> Some(tags), ingredients |-> Some(ingredients)]

EngagePayloads ==
    {RecipePayload(1, <<1>>, <<Line(1, 1), Line(2, 2)>>),
     RecipePayload(1, <<2>>, <<Line(1, 2)>>)}

Methods == {"POST", "DELETE"}
Stranger == "stranger"      \* an id of no user

FavoriteRecipe ==
    /\ last = NoRequest
    /\ \E method \in Methods, user \in Requesters, pk \in RecipeIds :
            HandleMethod(method, user, pk, favorite(method, user, pk))

ShoppingCartRecipe ==
    /\ last = NoRequest
    /\ \E method \in Methods, user \in Requesters, pk \in RecipeIds :
            HandleMethod(method, user, pk, shopping_cart(method, user, pk))

DownloadShoppingCart ==
    /\ last = NoRequest
    /\ \E user \in Requesters :
            Handle(user, 0, NoPayload, download_shopping_cart(user))

Subscribe ==
    /\ last = NoRequest
    /\ \E method \in Methods, user \in Requesters, following \in Users \cup {Stranger} :
            HandleSubscribe(method, user, following, subscribe(method, user, following))

EngageNext ==
    \/ CreateRecipe(EngagePayloads, MaxRecipes)
    \/ DestroyRecipe(MaxRecipes)
    \/ FavoriteRecipe
    \/ ShoppingCartRecipe
    \/ DownloadShoppingCart
    \/ Subscribe
    \/ Deliver

EngageSpec == Init /\ [][EngageNext]_vars

(***************************************************************************)
(* GET /recipes without filters: ListModelMixin.list renders every recipe  *)
(* for the requester.                                                      *)
(***************************************************************************)
list(user) ==
    LET failed == {id \in DOMAIN recipes : to_representation(user, recipes, id).error # ""}
    IN  IF failed # {}
        THEN Refuse(Response("list", 500,
                        {to_representation(user, recipes, id).error : id \in failed}))
        ELSE Refuse(WithBody(Response("list", 200, {}),
                        [id \in DOMAIN recipes |-> to_representation(user, recipes, id)]))

(***************************************************************************)
(* Two requests at once.  Each worker runs one handler, one ORM statement  *)
(* (one commit) per step; a step that ends the handler hands over the      *)
(* response.                                                               *)
(***************************************************************************)
Request(op, method, user, id, following, p, pc) ==
    [pc |-> pc, op |-> op, method |-> method, user |-> user, id |-> id,
     following |-> following, payload |-> p, seen |-> FALSE]

ExchangeOf(r, resp) ==
    [Exchange(r.user, r.id, r.payload, resp)
        EXCEPT !.method = r.method, !.following = r.following]

\* The worker goes on to its next statement.
Goto(w, pc) ==
    /\ inflight' = [inflight EXCEPT ![w].pc = pc]
    /\ last' = last

\* The worker's handler returns (or raises): the response goes out.
Respond(w, resp) ==
    /\ inflight' = [inflight EXCEPT ![w] = Idle]
    /\ last' = ExchangeOf(inflight[w], resp)

At(w, op, pc) == inflight[w].op = op /\ inflight[w].pc = pc

RacePayloads ==
    {RecipePayload(1, <<1>>, <<Line(1, 1)>>),
     RecipePayload(2, <<2>>, <<Line(2, 2)>>),
     [cooking_time |-> Some(2), tags |-> None, ingredients |-> Some(<<Line(1, 1)>>)]}

\* Recipe rows that the creates in flight are still to insert
Pending == Cardinality({w \in Workers : inflight[w].pc = "objects_create"})

\* The request is refused before its first write.
Reject(user, id, p, resp) ==
    /\ inflight' = inflight
    /\ last' = Exchange(user, id, p, resp)

\* RecipeViewSet.create up to serializer.is_valid
BeginCreate(cap) ==
    /\ last = NoRequest
    /\ next_id + Pending <= cap
    /\ \E w \in Workers, user \in Users, p \in RacePayloads :
        /\ inflight[w].pc = "idle"
        /\ IF is_valid(p, FALSE) # {}
           THEN Reject(user, 0, p, Response("create", 400, is_valid(p, FALSE)))
           ELSE /\ inflight' = [inflight EXCEPT ![w] =
                        Request("create", "POST", user, 0, Anonymous, p, "objects_create")]
                /\ last' = last
        /\ UNCHANGED db

\* UpdateModelMixin.update up to serializer.is_valid: get_object, the
\* permission checks, the validation
BeginUpdate(cap) ==
    /\ last = NoRequest
    /\ \E w \in Workers, user \in Users, id \in 1..cap, p \in RacePayloads :
        /\ inflight[w].pc = "idle"
        /\ IF id \notin DOMAIN recipes
           THEN Reject(user, id, p, Response("update", 404, {"not_found"}))
           ELSE IF ~has_object_permission(user, recipes[id])
           THEN Reject(user, id, p, Response("update", 403, {"permission_denied"}))
           ELSE IF is_valid(p, TRUE) # {}
           THEN Reject(user, id, p, Response("update", 400, is_valid(p, TRUE)))
           ELSE /\ inflight' = [inflight EXCEPT ![w] =
                        Request("update", "PATCH", user, id, Anonymous, p, "super_update")]
                /\ last' = last
        /\ UNCHANGED db

\* recipe = Recipe.objects.create(**validated_data)
ObjectsCreate ==
    /\ last = NoRequest
    /\ \E w \in Workers :
        /\ At(w, "create", "objects_create")
        /\ recipes' = objects_create(recipes, next_id, inflight[w].user,
                                     inflight[w].payload.cooking_time[1])
        /\ next_id' = next_id + 1
        /\ inflight' = [inflight EXCEPT ![w].id = next_id, ![w].pc = "tags_set"]
        /\ UNCHANGED <<Favorite, ShoppingCart, Follow, last>>

\* instance = super().update(instance, validated_data), and the two tests
\* that follow it
SuperUpdate ==
    /\ last = NoRequest
    /\ \E w \in Workers :
        /\ At(w, "update", "super_update")
        /\ recipes' = super_update(recipes, inflight[w].id, inflight[w].payload)
        /\ IF inflight[w].payload.ingredients = None
           THEN Respond(w, Response("update", 400, {"ingredients_required_for_update"}))
           ELSE IF inflight[w].payload.tags = None
           THEN Respond(w, Response("update", 400, {"tags_required_for_update"}))
           ELSE Goto(w, "clear")
        /\ UNCHANGED <<next_id, Favorite, ShoppingCart, Follow>>

\* instance.ingredients.clear()
IngredientsClear ==
    /\ last = NoRequest
    /\ \E w \in Workers :
        /\ At(w, "update", "clear")
        /\ recipes' = ingredients_clear(recipes, inflight[w].id)
        /\ Goto(w, "fill_amount")
        /\ UNCHANGED <<next_id, Favorite, ShoppingCart, Follow>>

\* self.fill_amount(recipe, ingredients)
FillAmount ==
    /\ last = NoRequest
    /\ \E w \in Workers :
        /\ inflight[w].pc = "fill_amount"
        /\ LET r == fill_amount(recipes, inflight[w].id, inflight[w].payload.ingredients[1])
           IN  IF r.ok
               THEN /\ recipes' = r.recs
                    /\ Goto(w, IF inflight[w].op = "create" THEN "render" ELSE "tags_set")
               ELSE /\ recipes' = recipes
                    /\ Respond(w, Response(inflight[w].op, 500, {"IntegrityError"}))
        /\ UNCHANGED <<next_id, Favorite, ShoppingCart, Follow>>

\* recipe.tags.set(tags)
TagsSet ==
    /\ last = NoRequest
    /\ \E w \in Workers :
        /\ inflight[w].pc = "tags_set"
        /\ recipes' = tags_set(recipes, inflight[w].id, inflight[w].payload.tags[1])
        /\ Goto(w, IF inflight[w].op = "create" THEN "fill_amount" ELSE "render")
        /\ UNCHANGED <<next_id, Favorite, ShoppingCart, Follow>>

\* serializer.data: the stored recipe rendered for the requester
Render ==
    /\ last = NoRequest
    /\ \E w \in Workers :
        /\ inflight[w].pc = "render"
        /\ LET ok == IF inflight[w].op = "create" THEN 201 ELSE 200
           IN  Respond(w, Response(inflight[w].op,
                            Rendered(inflight[w].user, recipes, inflight[w].id, ok),
                            RenderErrors(inflight[w].user, recipes, inflight[w].id)))
        /\ UNCHANGED db

ListRecipes ==
    /\ last = NoRequest
    /\ \E user \in Requesters : Handle(user, 0, NoPayload, list(user))

RaceWriteNext ==
    \/ BeginCreate(WriteRecipes)
    \/ BeginUpdate(WriteRecipes)
    \/ ObjectsCreate
    \/ SuperUpdate
    \/ IngredientsClear
    \/ FillAmount
    \/ TagsSet
    \/ Render
    \/ ListRecipes
    \/ Deliver

RaceWriteSpec == Init /\ [][RaceWriteNext]_vars

(***************************************************************************)
(* The engagement requests together with recipe updates.                   *)
(***************************************************************************)
StoreNext ==
    \/ EngageNext
    \/ UpdateRecipe(EngagePayloads, MaxRecipes)

StoreSpec == Init /\ [][StoreNext]_vars

(***************************************************************************)
(* GET /recipes with query parameters: RecipeViewSet.list and              *)
(* RecipeViewSet.get_queryset                                              *)
(***************************************************************************)
TagSlug(t) == <<"slug", t>>

\* The rows of a query as they are, repeated rows included
without_distinct(rows) == rows

\* queryset.distinct(): every row once
distinct(rows) == [id \in DOMAIN rows |-> 1]

\* The rows of the query, a bag of recipe ids.  The tags filter joins the
\* recipe with its tags and keeps one row per tag whose slug is asked for;
\* the two viewer filters are Exists subqueries and add no row.
get_queryset(user, q) ==
    LET flagged == q.is_in_shopping_cart # "" \/ q.is_favorited # ""
        by_author == {id \in DOMAIN recipes :
                        q.author = None \/ recipes[id].author = q.author[1]}
        joined(id) == IF q.tags = {} THEN 1
                      ELSE Cardinality({t \in recipes[id].tags : TagSlug(t) \in q.tags})
        by_tags == {id \in by_author : joined(id) > 0}
        in_cart == IF q.is_in_shopping_cart = "" THEN by_tags
                   ELSE {id \in by_tags :
                            (ShoppingCart[<<user, id>>] > 0) = (q.is_in_shopping_cart = "1")}
        in_favorite == IF q.is_favorited = "" THEN in_cart
                       ELSE {id \in in_cart :
                                (Favorite[<<user, id>>] > 0) = (q.is_favorited = "1")}
    IN  IF flagged /\ user = Anonymous
        THEN EmptyBag
        ELSE distinct([id \in in_favorite |-> joined(id)])

\* RecipeViewSet.list without its test of request.user.is_authenticated
list_query_without_auth_test(user, q) ==
    LET rows == get_queryset(user, q)
        failed == {id \in DOMAIN rows : to_representation(user, recipes, id).error # ""}
    IN  IF failed # {}
        THEN Refuse(Response("list", 500,
                        {to_representation(user, recipes, id).error : id \in failed}))
        ELSE Refuse(WithBody(Response("list", 200, {}),
                [rep \in {to_representation(user, recipes, id) : id \in DOMAIN rows} |->
                    rows[rep.id]]))

\* RecipeViewSet.list: the answer's body has an entry per row of the query.
list_query(user, q) ==
    LET rows == get_queryset(user, q)
        failed == {id \in DOMAIN rows : to_representation(user, recipes, id).error # ""}
    IN  IF (q.is_in_shopping_cart # "" \/ q.is_favorited # "") /\ user = Anonymous
        THEN Refuse(Response("list", 401, {"not_authenticated"}))
        ELSE IF failed # {}
        THEN Refuse(Response("list", 500,
                        {to_representation(user, recipes, id).error : id \in failed}))
        ELSE Refuse(WithBody(Response("list", 200, {}),
                [rep \in {to_representation(user, recipes, id) : id \in DOMAIN rows} |->
                    rows[rep.id]]))

(***************************************************************************)
(* The read requests, one at a time, over recipes with one or two tags    *)
(* that users put in their favorites and carts.                            *)
(***************************************************************************)
ReadPayloads ==
    {RecipePayload(1, <<1>>, <<Line(1, 1)>>),
     RecipePayload(1, <<2>>, <<Line(1, 1)>>),
     RecipePayload(1, <<1, 2>>, <<Line(1, 1)>>)}

Flags == {"", "0", "1"}

Queries ==
    [author : {None, Some("u1")},
     tags : SUBSET {TagSlug(t) : t \in TagIds},
     is_in_shopping_cart : Flags,
     is_favorited : Flags]

ListQuery ==
    /\ last = NoRequest
    /\ \E user \in Requesters, q \in Queries :
            Apply(list_query(user, q),
                  [Exchange(user, 0, NoPayload, list_query(user, q).resp)
                        EXCEPT !.query = q])

ReadNext ==
    \/ CreateRecipe(ReadPayloads, MaxRecipes)
    \/ FavoriteRecipe
    \/ ShoppingCartRecipe
    \/ ListQuery
    \/ RetrieveRecipe(MaxRecipes)
    \/ Deliver

ReadSpec == Init /\ [][ReadNext]_vars

(***************************************************************************)
(* Two engagement requests at once, over one recipe that may be deleted    *)
(* under them.                                                             *)
(***************************************************************************)
ToggleOps == {"favorite", "shopping_cart"}

\* The table a toggle works on, and the row it is about
TableOf(op) == IF op = "favorite" THEN Favorite ELSE ShoppingCart
KeyOf(r) == IF r.op = "subscribe" THEN <<r.user, r.following>> ELSE <<r.user, r.id>>

\* A logged-in user's request enters its view.
BeginToggle(cap) ==
    /\ last = NoRequest
    /\ \E w \in Workers, op \in ToggleOps, method \in Methods, user \in Users, pk \in 1..cap :
        /\ inflight[w].pc = "idle"
        /\ inflight' = [inflight EXCEPT ![w] =
                Request(op, method, user, pk, Anonymous, NoPayload, "get_object")]
        /\ UNCHANGED <<db, last>>

\* subscribe: following = get_object_or_404(User, id=following_id)
BeginSubscribe ==
    /\ last = NoRequest
    /\ \E w \in Workers, method \in Methods, user \in Users, following \in Users :
        /\ inflight[w].pc = "idle"
        /\ inflight' = [inflight EXCEPT ![w] =
                Request("subscribe", method, user, 0, following, NoPayload, "exists")]
        /\ UNCHANGED <<db, last>>

\* recipe = get_object_or_400(Recipe, id=pk)
GetRecipe ==
    /\ last = NoRequest
    /\ \E w \in Workers :
        /\ inflight[w].op \in ToggleOps
        /\ inflight[w].pc = "get_object"
        /\ IF get_object_or_400(recipes, inflight[w].id)
           THEN Goto(w, "exists")
           ELSE Respond(w, Response(inflight[w].op, 400, {"not_exist"}))
        /\ UNCHANGED db

\* favorite, shopping_cart: the filter(...).exists() test of either branch
CheckItem ==
    /\ last = NoRequest
    /\ \E w \in Workers :
        /\ inflight[w].op \in ToggleOps
        /\ inflight[w].pc = "exists"
        /\ IF exists(TableOf(inflight[w].op), KeyOf(inflight[w])) = (inflight[w].method = "POST")
           THEN Respond(w, Response(inflight[w].op, 400, {"errors"}))
           ELSE Goto(w, "write")
        /\ UNCHANGED db

\* subscribe: serializer.is_valid (POST), get_object_or_400(Follow) (DELETE)
CheckFollow ==
    /\ last = NoRequest
    /\ \E w \in Workers :
        /\ At(w, "subscribe", "exists")
        /\ IF inflight[w].method = "POST"
           THEN IF validate(inflight[w].user, inflight[w].following) # {}
                THEN Respond(w, Response("subscribe", 400,
                                validate(inflight[w].user, inflight[w].following)))
                ELSE Goto(w, "write")
           ELSE IF ~exists(Follow, KeyOf(inflight[w]))
                THEN Respond(w, Response("subscribe", 400, {"not_exist"}))
                ELSE Goto(w, "write")
        /\ UNCHANGED db

\* favorite, shopping_cart: objects.create (POST), obj.delete() (DELETE)
WriteItem ==
    /\ last = NoRequest
    /\ \E w \in Workers :
        /\ inflight[w].op \in ToggleOps
        /\ inflight[w].pc = "write"
        /\ LET op == inflight[w].op
               c == objects_create_item(TableOf(op), recipes, KeyOf(inflight[w]))
               table == IF inflight[w].method = "DELETE"
                        THEN delete(TableOf(op), KeyOf(inflight[w]))
                        ELSE c.table
           IN  /\ Favorite' = IF op = "favorite" THEN table ELSE Favorite
               /\ ShoppingCart' = IF op = "shopping_cart" THEN table ELSE ShoppingCart
               /\ Respond(w, IF inflight[w].method = "DELETE" THEN Response(op, 204, {})
                             ELSE IF c.ok THEN Response(op, 201, {})
                             ELSE Response(op, 500, {"IntegrityError"}))
        /\ UNCHANGED <<recipes, next_id, Follow>>

\* subscribe: Follow.objects.create (POST), subscription.delete() (DELETE)
WriteFollow ==
    /\ last = NoRequest
    /\ \E w \in Workers :
        /\ At(w, "subscribe", "write")
        /\ LET c == objects_create_follow(Follow, KeyOf(inflight[w]))
           IN  IF inflight[w].method = "DELETE"
               THEN /\ Follow' = delete(Follow, KeyOf(inflight[w]))
                    /\ Respond(w, Response("subscribe", 204, {}))
               ELSE /\ Follow' = c.table
                    /\ Respond(w, IF c.ok THEN Response("subscribe", 201, {})
                                  ELSE Response("subscribe", 500, {"IntegrityError"}))
        /\ UNCHANGED <<recipes, next_id, Favorite, ShoppingCart>>

RaceToggleNext ==
    \/ CreateRecipe(EngagePayloads, WriteRecipes)
    \/ DestroyRecipe(WriteRecipes)
    \/ BeginToggle(WriteRecipes)
    \/ BeginSubscribe
    \/ GetRecipe
    \/ CheckItem
    \/ CheckFollow
    \/ WriteItem
    \/ WriteFollow
    \/ Deliver

RaceToggleSpec == Init /\ [][RaceToggleNext]_vars

(***************************************************************************)
(* Claims about requests that run at once (RaceWriteSpec, RaceToggleSpec)  *)
(***************************************************************************)
\* C2: a list request that runs between the statements of a recipe create
\* or update sees only recipes with at least one tag and at least one
\* ingredient line.
C2_ReaderSeesCompleteRecipes ==
    (last.op = "list" /\ last.status = 200) =>
        \A id \in DOMAIN last.body[1] :
            /\ last.body[1][id].tags # {}
            /\ last.body[1][id].ingredients # EmptyBag

\* C3: whatever the order of the statements of concurrent favorite,
\* shopping_cart and subscribe requests, a (user, recipe) pair has at most
\* one Favorite row and at most one ShoppingCart row, and a (user,
\* following) pair has at most one Follow row.
C3_AtMostOneRowPerPair ==
    /\ \A key \in DOMAIN Favorite : Favorite[key] <= 1
    /\ \A key \in DOMAIN ShoppingCart : ShoppingCart[key] <= 1
    /\ \A key \in DOMAIN Follow : Follow[key] <= 1

\* Two adds of one pair both passed the existence test; the table refused
\* the second insert and the pair has one row.
C3_Witness ==
    /\ last.op = "favorite"
    /\ last.method = "POST"
    /\ last.status = 500
    /\ last.errors = {"IntegrityError"}
    /\ last.id \in DOMAIN recipes
    /\ Favorite[<<last.user, last.id>>] = 1

(***************************************************************************)
(* Claims about the recipe write service, one request at a time (Spec)     *)
(***************************************************************************)
IsWrite(x) == x.op \in {"create", "update"}

\* C1: a recipe write that ends in an error leaves the stored recipe (scalar
\* fields, tags, ingredient lines) as it was and adds no recipe row.
C1_WriteErrorChangesNothing ==
    [][(IsWrite(last') /\ last'.status >= 400) => recipes' = recipes]_vars

\* C4: every stored recipe has at least one tag and at least one ingredient
\* line, and exactly one line row per ingredient it uses (the tags of a
\* recipe are a set of rows, so no tag is there twice).
C4_StoredRecipesWellFormed ==
    \A id \in DOMAIN recipes :
        /\ recipes[id].tags # {}
        /\ recipes[id].tags \subseteq TagIds
        /\ recipes[id].lines # EmptyBag
        /\ unique_together_lines(recipes[id].lines)

C4_Witness ==
    /\ last.op = "update"
    /\ last.id \in DOMAIN recipes
    /\ last.payload.tags # None
    /\ last.payload.ingredients # None
    /\ Cardinality(recipes[last.id].tags) = 2
    /\ BagCardinality(recipes[last.id].lines) = 2

\* The entries the read projection shows for a list of payload lines.
ExpectedIngredients(ingredients) ==
    {[id |-> ingredients[i].id, name |-> IngredientName(ingredients[i].id),
      measurement_unit |-> IngredientUnit(ingredients[i].id),
      amount |-> ingredients[i].amount] : i \in DOMAIN ingredients}

ValidCreate(x) ==
    /\ x.op = "create"
    /\ x.user \in Users
    /\ is_valid(x.payload, FALSE) = {}

\* C5: after a create with a valid payload of N tags and M lines, the new
\* recipe's read projection has exactly the N tags and exactly M ingredient
\* entries, one per payload line, with the line's ingredient and amount.
C5_ReadBackMatchesPayload ==
    ValidCreate(last) =>
        LET id == next_id - 1
            rep == to_representation(Anonymous, recipes, id)
            lines == last.payload.ingredients[1]
            tags == last.payload.tags[1]
        IN  /\ id \in DOMAIN recipes
            /\ rep.error = ""
            /\ rep.tags = Range(tags)
            /\ Cardinality(rep.tags) = Len(tags)
            /\ BagToSet(rep.ingredients) = ExpectedIngredients(lines)
            /\ BagCardinality(rep.ingredients) = Len(lines)
            /\ \A e \in BagToSet(rep.ingredients) : CopiesIn(e, rep.ingredients) = 1

C5_Witness ==
    /\ ValidCreate(last)
    /\ Len(last.payload.tags[1]) = 2
    /\ Len(last.payload.ingredients[1]) = 2
    /\ last.payload.ingredients[1][1].amount # last.payload.ingredients[1][2].amount
    /\ BagCardinality(to_representation(Anonymous, recipes, next_id - 1).ingredients) = 2

HasDuplicateIngredient(p) ==
    /\ p.ingredients # None
    /\ \E i, j \in DOMAIN p.ingredients[1] :
            i < j /\ p.ingredients[1][i].id = p.ingredients[1][j].id

\* C6: a create whose payload names one ingredient in two lines fails
\* validation, whatever the rest of the payload (a request without a user is
\* refused before that), and stores no recipe row, tag or line.
C6_DuplicateIngredientRejected ==
    [][(last'.op = "create" /\ HasDuplicateIngredient(last'.payload)) =>
            /\ last'.status = (IF last'.user = Anonymous THEN 401 ELSE 400)
            /\ recipes' = recipes
            /\ next_id' = next_id]_vars

C6_Witness ==
    /\ last.op = "create"
    /\ last.user \in Users
    /\ HasDuplicateIngredient(last.payload)
    /\ last.payload.tags = Some(<<1>>)
    /\ last.payload.cooking_time = Some(1)
    /\ last.errors = {"duplicate_found"}
    /\ recipes = <<>>

HasEmptyList(p) == p.tags = Some(<<>>) \/ p.ingredients = Some(<<>>)

\* C7: a create or an update whose payload gives an empty tag list or an
\* empty ingredient list fails: a request the permissions let through ends
\* with the validation error of the empty list, and in every case no recipe
\* is stored and the target's scalar fields, tags and lines stay as they were.
C7_EmptyListRejected ==
    [][(IsWrite(last') /\ HasEmptyList(last'.payload)) =>
            /\ recipes' = recipes
            /\ next_id' = next_id
            /\ \/ last'.status \in {401, 403, 404}
               \/ /\ last'.status = 400
                  /\ last'.errors \cap {"no_tags", "no_ingredients"} # {}]_vars

C7_Witness ==
    /\ last.op = "update"
    /\ last.id \in DOMAIN recipes
    /\ last.payload.tags = Some(<<>>)
    /\ last.payload.ingredients = Some(<<[id |-> 1, amount |-> 1]>>)
    /\ last.payload.cooking_time # None
    /\ last.payload.cooking_time # Some(recipes[last.id].cooking_time)
    /\ last.status = 400
    /\ last.errors = {"no_tags"}

(***************************************************************************)
(* Claims about the engagement toggles and the shopping list export, one   *)
(* request at a time (EngageSpec)                                          *)
(***************************************************************************)
IsToggle(x) == x.op \in {"favorite", "shopping_cart"}

\* C8: one request at a time, for Favorite and ShoppingCart alike: an add
\* for a pair that already has a row is refused with the 400 "errors"
\* answer and the pair keeps exactly one row; a remove for a pair without a
\* row is refused and the pair keeps zero rows; a refused toggle changes no
\* row of either table.
C8_SequentialToggles ==
    [][IsToggle(last') =>
        /\ last'.status >= 400 =>
                (Favorite' = Favorite /\ ShoppingCart' = ShoppingCart)
        /\ (last'.user \in Users /\ last'.id \in DOMAIN recipes) =>
                LET key == <<last'.user, last'.id>>
                    before == IF last'.op = "favorite"
                              THEN Favorite[key] ELSE ShoppingCart[key]
                    after == IF last'.op = "favorite"
                             THEN Favorite'[key] ELSE ShoppingCart'[key]
                IN  /\ (last'.method = "POST" /\ before >= 1) =>
                            /\ last'.status = 400
                            /\ last'.errors = {"errors"}
                            /\ after = 1
                    /\ (last'.method = "DELETE" /\ before = 0) =>
                            /\ last'.status = 400
                            /\ last'.errors = {"errors"}
                            /\ after = 0]_vars

\* A second add of a pair was just refused, and so was a remove of a pair
\* that is not in the other table.
C8_Witness ==
    /\ last.op = "shopping_cart"
    /\ last.method = "POST"
    /\ last.user = "u1"
    /\ last.status = 400
    /\ last.errors = {"errors"}
    /\ ShoppingCart[<<"u1", last.id>>] = 1
    /\ Favorite[<<"u1", last.id>>] = 0

CartRecipes(user) == {id \in DOMAIN recipes : ShoppingCart[<<user, id>>] > 0}

\* The total of ingredient i over the recipes of the user's cart, each
\* recipe once.
ExpectedTotal(user, i) ==
    LET ofRecipe == [id \in CartRecipes(user) |->
            SumOver([r \in DOMAIN recipes[id].lines |->
                        IF r.ingredient = i
                        THEN recipes[id].lines[r] * r.amount ELSE 0],
                    DOMAIN recipes[id].lines)]
    IN  SumOver(ofRecipe, CartRecipes(user))

ExpectedList(user) ==
    LET used == {i \in IngredientIds :
                    \E id \in CartRecipes(user) :
                        \E r \in DOMAIN recipes[id].lines : r.ingredient = i}
        key(i) == <<IngredientName(i), IngredientUnit(i)>>
    IN  [k \in {key(i) : i \in used} |->
            ExpectedTotal(user, CHOOSE i \in used : key(i) = k)]

\* C9: for a user whose cart is not empty, the export answers with one
\* entry per (ingredient name, measurement unit) of the lines of the user's
\* cart recipes, each with the sum of the amounts of that ingredient over
\* those recipes; other users' carts and other recipes add nothing.
C9_ShoppingListSumsCart ==
    (/\ last.op = "download_shopping_cart"
     /\ last.user \in Users
     /\ CartRecipes(last.user) # {}) =>
        /\ last.status = 200
        /\ last.body = Some(ExpectedList(last.user))

\* C10: for a user who has no ShoppingCart row, the export is refused with
\* the 400 answer and carries no file.
C10_EmptyCartRefused ==
    (/\ last.op = "download_shopping_cart"
     /\ last.user \in Users
     /\ CartRecipes(last.user) = {}) =>
        /\ last.status = 400
        /\ last.body = None

(***************************************************************************)
(* Claims about subscriptions (EngageSpec)                                 *)
(***************************************************************************)
\* C11: a subscribe request of a user to themself is refused with the
\* self_sub error whatever Follow rows there are, and adds no row; no Follow
\* row ever has user equal to following.
C11_NoSelfFollow ==
    /\ [](\A u \in Users : Follow[<<u, u>>] = 0)
    /\ [][(/\ last'.op = "subscribe"
           /\ last'.method = "POST"
           /\ last'.user = last'.following) =>
                /\ last'.status = 400
                /\ "self_sub" \in last'.errors
                /\ Follow' = Follow]_vars

\* u1, who follows u2 and is followed by u2, was just refused a
\* subscription to themself.
C11_Witness ==
    /\ last.op = "subscribe"
    /\ last.method = "POST"
    /\ last.user = "u1"
    /\ last.following = "u1"
    /\ last.status = 400
    /\ last.errors = {"self_sub"}
    /\ Follow[<<"u1", "u2">>] = 1
    /\ Follow[<<"u2", "u1">>] = 1

(***************************************************************************)
(* Claims about the recipe list and the read projection (ReadSpec)         *)
(***************************************************************************)
BodyIds(x) == {rep.id : rep \in DOMAIN x.body[1]}

Listed(x) == x.op = "list" /\ x.status = 200

\* C12: a list answer to a query with a tags filter holds every entry
\* exactly once, each of a recipe that carries at least one of the given
\* slugs; when tags is the only filter, it holds exactly the recipes that
\* carry at least one of them (also those that do not carry all of them).
C12_TagsFilterIsUnionOnce ==
    (Listed(last) /\ last.query.tags # {}) =>
        LET any_of == {id \in DOMAIN recipes :
                        \E t \in recipes[id].tags : TagSlug(t) \in last.query.tags}
        IN  /\ \A rep \in DOMAIN last.body[1] : last.body[1][rep] = 1
            /\ \A rep \in DOMAIN last.body[1] : rep.tags = recipes[rep.id].tags
            /\ BodyIds(last) \subseteq any_of
            /\ Cardinality(DOMAIN last.body[1]) = Cardinality(BodyIds(last))
            /\ (/\ last.query.author = None
                /\ last.query.is_favorited = ""
                /\ last.query.is_in_shopping_cart = "") => BodyIds(last) = any_of

\* Two slugs are asked for; the answer holds a recipe that carries both and
\* a recipe that carries one of them.
C12_Witness ==
    /\ Listed(last)
    /\ last.query = [NoQuery EXCEPT !.tags = {TagSlug(1), TagSlug(2)}]
    /\ BodyIds(last) = {1, 2}
    /\ recipes[1].tags = {1, 2}
    /\ recipes[2].tags = {2}

ViewerFiltered(q) == q.is_favorited # "" \/ q.is_in_shopping_cart # ""

\* C13: a list request of an anonymous viewer with a non-empty is_favorited
\* or is_in_shopping_cart parameter is answered with the 401 authentication
\* error and no recipe, in every state and with every other filter.
C13_AnonymousViewerFilterRefused ==
    (/\ last.op = "list"
     /\ last.user = Anonymous
     /\ ViewerFiltered(last.query)) =>
        /\ last.status = 401
        /\ last.errors = {"not_authenticated"}
        /\ last.body = None

\* Two recipes are stored, one of them a favorite of its author; the
\* anonymous request asks for is_favorited=0 together with other filters.
C13_Witness ==
    /\ last.op = "list"
    /\ last.user = Anonymous
    /\ last.query = [author |-> Some("u1"), tags |-> {TagSlug(1)},
                     is_in_shopping_cart |-> "", is_favorited |-> "0"]
    /\ last.status = 401
    /\ DOMAIN recipes = {1, 2}
    /\ recipes[1].author = "u1"
    /\ Favorite[<<"u1", 1>>] = 1

\* C14: every list answer renders each recipe with is_favorited true exactly
\* when a Favorite row of (viewer, recipe) exists and is_in_shopping_cart
\* true exactly when a ShoppingCart row of (viewer, recipe) exists, both
\* false for an anonymous viewer; no viewer gets an error in their place.
C14_ViewerFlagsAreRowExistence ==
    (/\ last.op = "list"
     /\ ~(last.user = Anonymous /\ ViewerFiltered(last.query))) =>
        /\ last.status = 200
        /\ \A rep \in DOMAIN last.body[1] :
            /\ rep.is_favorited =
                    (last.user # Anonymous /\ Favorite[<<last.user, rep.id>>] > 0)
            /\ rep.is_in_shopping_cart =
                    (last.user # Anonymous /\ ShoppingCart[<<last.user, rep.id>>] > 0)

(***************************************************************************)
(* Claims about updates, deletes and permissions                           *)
(***************************************************************************)
\* The update ran to the end of RecipeCreateSerializer.update: it was
\* answered 200, or all of it was stored and only the rendering of the
\* answer failed.
UpdateDone(x) ==
    x.op = "update" /\ (x.status = 200 \/ x.errors = {"AttributeError"})

\* C15: after an update that ran to its end, the recipe's tags are exactly
\* the payload's tags, its lines are exactly one row per payload line with
\* the payload's amount, its cooking_time is the payload's if the payload
\* has one, and its author is who it was.
C15_UpdateReplacesTagsAndLines ==
    [][UpdateDone(last') =>
        LET id == last'.id
            p == last'.payload
        IN  /\ id \in DOMAIN recipes /\ id \in DOMAIN recipes'
            /\ recipes'[id].tags = Range(p.tags[1])
            /\ BagCardinality(recipes'[id].lines) = Len(p.ingredients[1])
            /\ \A i \in DOMAIN p.ingredients[1] :
                    CopiesIn([ingredient |-> p.ingredients[1][i].id,
                              amount |-> p.ingredients[1][i].amount],
                             recipes'[id].lines) = 1
            /\ recipes'[id].cooking_time =
                    (IF p.cooking_time = None THEN recipes[id].cooking_time
                     ELSE p.cooking_time[1])
            /\ recipes'[id].author = recipes[id].author]_vars

\* The staff user replaced the tags and lines of u1's recipe, which is
\* still u1's.
C15_Witness ==
    /\ UpdateDone(last)
    /\ last.user = "u2"
    /\ last.payload.cooking_time = None
    /\ last.payload.tags = Some(<<2>>)
    /\ last.payload.ingredients = Some(<<Line(2, 2)>>)
    /\ recipes[last.id].author = "u1"
    /\ recipes[last.id].tags = {2}
    /\ recipes[last.id].cooking_time = 2
    /\ BagToSet(recipes[last.id].lines) = {[ingredient |-> 2, amount |-> 2]}

\* The keys of a table that have a row
Rows(table) == {key \in DOMAIN table : table[key] > 0}

\* C16: every Favorite row and every ShoppingCart row points at a stored
\* recipe (the lines of a recipe are stored with it); a delete of a recipe
\* removes the recipe with its lines and the rows that point at it, and
\* leaves every other recipe and every other row as it was.
C16_NoDanglingRows ==
    /\ [](\A key \in Rows(Favorite) \cup Rows(ShoppingCart) : key[2] \in DOMAIN recipes)
    /\ [][(last'.op = "destroy" /\ last'.status = 204) =>
            /\ DOMAIN recipes' = DOMAIN recipes \ {last'.id}
            /\ \A id \in DOMAIN recipes' : recipes'[id] = recipes[id]
            /\ \A key \in DOMAIN Favorite :
                    /\ Favorite'[key] = IF key[2] = last'.id THEN 0 ELSE Favorite[key]
                    /\ ShoppingCart'[key] =
                            IF key[2] = last'.id THEN 0 ELSE ShoppingCart[key]
            /\ Follow' = Follow]_vars

\* Recipe 1 was just deleted; recipe 2 is stored, still a favorite of u1
\* and in the cart of u2, and no row points at recipe 1.
C16_Witness ==
    /\ last.op = "destroy"
    /\ last.status = 204
    /\ last.id = 1
    /\ DOMAIN recipes = {2}
    /\ Rows(Favorite) = {<<"u1", 2>>}
    /\ Rows(ShoppingCart) = {<<"u2", 2>>}

\* C17: an add to the favorites or to the cart of a stored recipe is
\* answered 201 (the row was created) or with the 400 "errors" answer (the
\* pair has a row), also when another add of the same pair runs between
\* its existence test and its insert; it never ends as a server error.
C17_LostAddIsValidationError ==
    (/\ IsToggle(last)
     /\ last.method = "POST"
     /\ last.id \in DOMAIN recipes) =>
        \/ last.status = 201
        \/ last.status = 400 /\ last.errors = {"errors"}

\* C18: a GET of a stored recipe is answered 200 with its projection for
\* every viewer: anonymous, author, staff, or any other user.
C18_AnyViewerCanRetrieve ==
    (last.op = "retrieve" /\ last.id \in DOMAIN recipes) => last.status = 200

Outsider(user, row) == user # row.author /\ user \notin Staff

\* C19: a PATCH or DELETE of a stored recipe by a requester who is neither
\* its author nor staff is refused (401 without a user, else 403) and
\* changes no table; every step that changes or removes a stored recipe is
\* a request of its author or of staff.
C19_OnlyAuthorOrStaffWrites ==
    /\ [][(/\ last'.op \in {"update", "destroy"}
           /\ last'.id \in DOMAIN recipes
           /\ Outsider(last'.user, recipes[last'.id])) =>
                /\ last'.status = (IF last'.user = Anonymous THEN 401 ELSE 403)
                /\ db' = db]_vars
    /\ [][\A id \in DOMAIN recipes :
            (id \notin DOMAIN recipes' \/ recipes'[id] # recipes[id]) =>
                ~Outsider(last'.user, recipes[id])]_vars

\* u1, who is not staff, was refused a PATCH of the staff user's recipe,
\* which is stored as it was created.
C19_Witness ==
    /\ last.op = "update"
    /\ last.user = "u1"
    /\ last.status = 403
    /\ is_valid(last.payload, TRUE) = {}
    /\ last.payload.cooking_time = Some(2)
    /\ last.payload.tags # None /\ last.payload.ingredients # None
    /\ last.id \in DOMAIN recipes
    /\ recipes[last.id].author = "u2"
    /\ recipes[last.id].cooking_time = 1

=============================================================================
